---- MODULE Spec2Model ----
(***************************************************************************)
(* A model of go-structured-logger: the Entry record, the Logger with its  *)
(* buffer of Entries (Log, WithContext, WithRequest, DecorateEntries,      *)
(* Flush, NewLogger) and the request-scoping Middleware with FromContext.  *)
(*                                                                         *)
(* Strings the code inspects character by character (the context blob that *)
(* isJSON validates) are sequences of one-character strings; every other   *)
(* string is a TLA+ string.  Time is counted in milliseconds.              *)
(***************************************************************************)
EXTENDS Integers, Sequences, FiniteSets, TLC

VARIABLES
    loggers,   \* the Loggers built so far, in construction order (the heap of *Logger)
    sink,      \* the lines written to the one non-nil io.Writer, oldest first
    now,       \* the clock, in milliseconds
    uuids,     \* how many identifiers uuid.New() has handed out
    logCalls,  \* per Logger, how many times Log has been called on it
    pc,        \* per request: where its Middleware invocation stands
    ctx,       \* per request: the Logger stored in the request context (0: none)
    wstatus,   \* per request: the status code the wrapped response writer recorded
    flushAt    \* per request: the index of the Entry that the loop of a Flush under
               \* way on its Logger writes next (0: no Flush under way)

vars == <<loggers, sink, now, uuids, logCalls, pc, ctx, wstatus, flushAt>>

----------------------------------------------------------------------------
(* Bounds of the model. *)

MaxLoggers == 1    \* Loggers built by NewLogger calls of the application in one run
MaxLogs == 2       \* Log calls in one run, over all Loggers
MaxTicks == 1      \* times the clock advances in one run
MaxDecorators == 1 \* decorators passed to one DecorateEntries call
MaxCtxLen == 3     \* length of the context strings tried exhaustively
MaxCtxLogs == 1    \* Log calls in one run that tries the context strings exhaustively
MaxNewLoggers == 2 \* Loggers built in one run that builds several
MaxChain == 2      \* decorators passed to one DecorateEntries call that chains them
MaxEncLogs == 3    \* Log calls in one run in which encoding an Entry can fail
MaxClockMs == 3000 \* the latest time the clock reaches in a run that follows delta
MaxClockLogs == 3  \* Log calls in one run that follows delta
MaxHandlerLogs == 3 \* Log calls of the handlers in one run that numbers its Entries
TickMs == 1500     \* milliseconds the clock advances in one step

MsPerSecond == 1000 \* time.RFC3339 formats a time to the second

----------------------------------------------------------------------------
(* Values. *)

\* level (logger.go, const block) and level.String
Debug == 0
Info == 1
Warn == 2
Error == 3
Levels == {Debug, Info, Warn, Error}

LevelString(s) ==
    CASE s = Debug -> "debug"
      [] s = Info -> "info"
      [] s = Warn -> "warn"
      [] s = Error -> "error"
      [] OTHER -> "unknown"

NilWriter == "nil"
OutWriter == "out"
NilRequest == "nil"

\* The Config values a caller passes: one with a sink, one without.
Configs ==
    { [Writer |-> OutWriter, Env |-> "some-env", Service |-> "some-service"],
      [Writer |-> NilWriter, Env |-> "some-env", Service |-> "some-service"] }

\* The *http.Request values of the model.  TraceHeader is what
\* request.Header.Get("x-trace-id") returns: "" when the header is absent or empty.
Requests == {"req1", "req2", "req3"}

RequestData(r) ==
    CASE r = "req1" -> [RemoteAddr |-> "10.0.0.1:1", Method |-> "GET", RawQuery |-> "",
                        Host |-> "my.app", Path |-> "/some-path", TraceHeader |-> "my-trace"]
      [] r = "req2" -> [RemoteAddr |-> "10.0.0.2:2", Method |-> "GET", RawQuery |-> "q=1",
                        Host |-> "my.app", Path |-> "/some-other-path",
                        TraceHeader |-> "my-new-trace"]
      [] r = "req3" -> [RemoteAddr |-> "10.0.0.3:3", Method |-> "POST", RawQuery |-> "",
                        Host |-> "my.app", Path |-> "/no-trace", TraceHeader |-> ""]

\* The calls of the level methods that the runs make: Info and Warn, as the tests do.
LogInputs == { <<Info, "some message">>, <<Warn, "some warning">> }

\* os.Args joined by single spaces: a constant of the process.
ProcessArgs == "logger.test -test.v"

\* uuid.New().String(): the n-th identifier generated; all are different.
UUID(n) == "uuid-" \o ToString(n)

\* time.Time.Format(time.RFC3339): the time to the second.
FormatRFC3339(t) == t \div MsPerSecond

----------------------------------------------------------------------------
(* isJSON: json.Unmarshal into a json.RawMessage succeeds exactly when the  *)
(* whole text is one well-formed JSON value.  The alphabet has no letters   *)
(* of true, false or null and no backslash, so a value is an object, an     *)
(* array, a string or a number written with the digit 1.                    *)

Chars == {"{", "}", "[", "]", "\"", ":", ",", " ", "1", "a"}

\* the first index at or after i that holds no white space
RECURSIVE SkipSpace(_, _)
SkipSpace(s, i) ==
    IF i <= Len(s) /\ s[i] = " " THEN SkipSpace(s, i + 1) ELSE i

\* the index after the string literal that opens at i, 0 if it never closes
RECURSIVE StringEnd(_, _)
StringEnd(s, i) ==
    IF i > Len(s) THEN 0
    ELSE IF s[i] = "\"" THEN i + 1
    ELSE StringEnd(s, i + 1)

\* the index after the digits that start at i
RECURSIVE NumberEnd(_, _)
NumberEnd(s, i) ==
    IF i <= Len(s) /\ s[i] = "1" THEN NumberEnd(s, i + 1) ELSE i

RECURSIVE ValueEnd(_, _)
RECURSIVE ElementsEnd(_, _)
RECURSIVE MembersEnd(_, _)

\* the index after the JSON value that starts at i, 0 if there is none
ValueEnd(s, i) ==
    IF i > Len(s) THEN 0
    ELSE CASE s[i] = "\"" -> StringEnd(s, i + 1)
           [] s[i] = "1" -> NumberEnd(s, i)
           [] s[i] = "[" ->
                LET j == SkipSpace(s, i + 1)
                IN  IF j <= Len(s) /\ s[j] = "]" THEN j + 1 ELSE ElementsEnd(s, j)
           [] s[i] = "{" ->
                LET j == SkipSpace(s, i + 1)
                IN  IF j <= Len(s) /\ s[j] = "}" THEN j + 1 ELSE MembersEnd(s, j)
           [] OTHER -> 0

\* after "[": value ("," value)* "]", the index after the "]", 0 on a syntax error
ElementsEnd(s, i) ==
    LET v == ValueEnd(s, i)
        j == SkipSpace(s, v)
    IN  IF v = 0 \/ j > Len(s) THEN 0
        ELSE IF s[j] = "]" THEN j + 1
        ELSE IF s[j] = "," THEN ElementsEnd(s, SkipSpace(s, j + 1))
        ELSE 0

\* after "{": string ":" value ("," string ":" value)* "}", the index after the "}"
MembersEnd(s, i) ==
    LET k == IF i <= Len(s) /\ s[i] = "\"" THEN StringEnd(s, i + 1) ELSE 0
        c == SkipSpace(s, k)
        v == IF k = 0 \/ c > Len(s) \/ s[c] # ":" THEN 0
             ELSE ValueEnd(s, SkipSpace(s, c + 1))
        j == SkipSpace(s, v)
    IN  IF v = 0 \/ j > Len(s) THEN 0
        ELSE IF s[j] = "}" THEN j + 1
        ELSE IF s[j] = "," THEN MembersEnd(s, SkipSpace(s, j + 1))
        ELSE 0

\* a validator that accepts a text as soon as it starts with a JSON value
isJSONPrefix(str) ==
    ValueEnd(str, SkipSpace(str, 1)) # 0

isJSON(str) ==
    LET e == ValueEnd(str, SkipSpace(str, 1))
    IN  e # 0 /\ SkipSpace(str, e) = Len(str) + 1

EmptyString == << >>
EmptyObject == <<"{", "}">>

----------------------------------------------------------------------------
(* Entry (entry.go) and its JSON encoding. *)

\* a WithContext with a value receiver: it sets the context of a copy
WithContextOnCopy(e, context) == e

\* Entry.WithContext: the Entry with its context set
WithContextOn(e, context) ==
    [e EXCEPT !.ContextAsString = IF isJSON(context) THEN context ELSE EmptyObject]

\* json.Marshal of an *Entry: the object's members in the order of the struct's
\* fields, each under the key of its json tag.
Marshal(e) ==
    << <<"args", e.Args>>, <<"causer_id", e.CauserID>>, <<"causer_type", e.CauserType>>,
       <<"context_as_string", e.ContextAsString>>, <<"data_id", e.DataId>>,
       <<"data_type", e.DataType>>, <<"datetime", e.Datetime>>, <<"delta", e.Delta>>,
       <<"env", e.Env>>, <<"impersonator", e.Impersonator>>, <<"level", e.Level>>,
       <<"message", e.Message>>, <<"process_context", e.ProcessContext>>,
       <<"process_start", e.ProcessStart>>, <<"remote_address", e.RemoteAddress>>,
       <<"request_method", e.RequestMethod>>, <<"request_query", e.RequestQuery>>,
       <<"request_url", e.RequestURL>>, <<"service", e.Service>>,
       <<"status_code", e.StatusCode>>, <<"trace_id", e.TraceID>>, <<"type", e.Type>> >>

\* the value a written line holds under a key
RECURSIVE FieldFrom(_, _, _)
FieldFrom(line, key, i) ==
    IF line[i][1] = key THEN line[i][2] ELSE FieldFrom(line, key, i + 1)

Field(line, key) == FieldFrom(line, key, 1)

----------------------------------------------------------------------------
(* Logger (logger.go). *)

\* Logger.buildEntry at time t
buildEntry(l, lvl, msg, t) ==
    LET bound == l.request # NilRequest
        rq == RequestData(l.request)
    IN  [ Args |-> ProcessArgs,
          CauserID |-> "",
          CauserType |-> "",
          ContextAsString |-> EmptyString,
          DataId |-> "",
          DataType |-> "",
          Datetime |-> FormatRFC3339(t),
          Delta |-> t - l.startTime,
          Env |-> l.env,
          Impersonator |-> "",
          Level |-> LevelString(lvl),
          Message |-> msg,
          ProcessContext |-> "request",
          ProcessStart |-> FormatRFC3339(l.startTime),
          RemoteAddress |-> IF bound THEN rq.RemoteAddr ELSE "",
          RequestMethod |-> IF bound THEN rq.Method ELSE "",
          RequestQuery |-> IF bound THEN rq.RawQuery ELSE "",
          RequestURL |-> IF bound THEN rq.Host \o rq.Path ELSE "",
          Service |-> l.service,
          StatusCode |-> 0,
          TraceID |-> l.traceID,
          Type |-> "general" ]

\* a Log whose Entry starts from the decoration of the last buffered Entry
LogOnCarriedOver(l, lvl, msg, t) ==
    LET e == buildEntry(l, lvl, msg, t)
        n == Len(l.Entries)
    IN  [l EXCEPT !.Entries =
            Append(@, [e EXCEPT !.StatusCode = IF n = 0 THEN 0 ELSE l.Entries[n].StatusCode])]

\* a Log whose Entry takes the time of the call as its process_start
LogOnStartNow(l, lvl, msg, t) ==
    [l EXCEPT !.Entries =
        Append(@, [buildEntry(l, lvl, msg, t) EXCEPT !.ProcessStart = FormatRFC3339(t)])]

\* a Log that keeps Debug Entries out of the buffer in production
LogOnFiltered(l, lvl, msg, t) ==
    IF lvl = Debug /\ l.env = "production" THEN l
    ELSE [l EXCEPT !.Entries = Append(@, buildEntry(l, lvl, msg, t))]

\* a Log that puts the new Entry first
LogOnPrepended(l, lvl, msg, t) ==
    [l EXCEPT !.Entries = <<buildEntry(l, lvl, msg, t)>> \o @]

\* a Log whose delta counts from the Entry before it
LogOnDeltaSinceLast(l, lvl, msg, t) ==
    LET e == buildEntry(l, lvl, msg, t)
        n == Len(l.Entries)
    IN  [l EXCEPT !.Entries =
            Append(@, [e EXCEPT !.Delta = IF n = 0 THEN @ ELSE @ - l.Entries[n].Delta])]

\* Logger.Log: the Logger with the new Entry appended
LogOn(l, lvl, msg, t) ==
    [l EXCEPT !.Entries = Append(@, buildEntry(l, lvl, msg, t))]

\* a WithRequest that takes the header without testing it for ""
WithRequestOnUnchecked(l, request) ==
    IF request # NilRequest
    THEN [l EXCEPT !.request = request, !.traceID = RequestData(request).TraceHeader]
    ELSE [l EXCEPT !.request = request]

\* a WithRequest that takes the trace id from the first request bound only
WithRequestOnFirstWins(l, request) ==
    IF l.request = NilRequest /\ request # NilRequest /\ RequestData(request).TraceHeader # ""
    THEN [l EXCEPT !.request = request, !.traceID = RequestData(request).TraceHeader]
    ELSE [l EXCEPT !.request = request]

\* a WithRequest that also brings the buffered Entries up to the new request
WithRequestOnRestamped(l, request) ==
    LET bound == IF request # NilRequest /\ RequestData(request).TraceHeader # ""
                 THEN [l EXCEPT !.request = request,
                                !.traceID = RequestData(request).TraceHeader]
                 ELSE [l EXCEPT !.request = request]
        url == IF request = NilRequest THEN ""
               ELSE RequestData(request).Host \o RequestData(request).Path
    IN  [bound EXCEPT !.Entries = [i \in 1..Len(l.Entries) |->
                                      [l.Entries[i] EXCEPT !.RequestURL = url]]]

\* Logger.WithRequest: the Logger after binding request
WithRequestOn(l, request) ==
    LET bound == [l EXCEPT !.request = request]
    IN  IF request # NilRequest /\ RequestData(request).TraceHeader # ""
        THEN [bound EXCEPT !.traceID = RequestData(request).TraceHeader]
        ELSE bound

\* The decorators of the model: the one of TestLogger_DecorateEntries, split in
\* its two assignments, the Middleware's closure over the response status, and one
\* that reads what another wrote: it raises the level of an Entry whose status
\* code is set.
StatusDecorator(code) == [field |-> "StatusCode", value |-> code]
ServiceDecorator == [field |-> "Service", value |-> "my-service"]
EscalateDecorator == [field |-> "Level", value |-> LevelString(Error)]

Decorators == {StatusDecorator(404)}

\* decorator(entry)
Decorate(decorator, entry) ==
    CASE decorator.field = "StatusCode" -> [entry EXCEPT !.StatusCode = decorator.value]
      [] decorator.field = "Service" -> [entry EXCEPT !.Service = decorator.value]
      [] decorator.field = "Level" ->
            IF entry.StatusCode # 0 THEN [entry EXCEPT !.Level = decorator.value] ELSE entry

\* an inner loop that runs through the decorators from the last to the first
RECURSIVE DecorateAllReversed(_, _, _)
DecorateAllReversed(decorators, entry, k) ==
    IF k > Len(decorators) THEN entry
    ELSE Decorate(decorators[k], DecorateAllReversed(decorators, entry, k + 1))

\* the inner loop of DecorateEntries: the decorators from the k-th on, left to right
RECURSIVE DecorateAll(_, _, _)
DecorateAll(decorators, entry, k) ==
    IF k > Len(decorators) THEN entry
    ELSE DecorateAll(decorators, Decorate(decorators[k], entry), k + 1)

\* Logger.DecorateEntries
DecorateEntriesOn(l, decorators) ==
    [l EXCEPT !.Entries = [i \in 1..Len(l.Entries) |-> DecorateAll(decorators, l.Entries[i], 1)]]

\* a Flush whose loop stops one Entry short
FlushLinesButLast(l) ==
    IF l.writer = NilWriter \/ l.Entries = << >> THEN << >>
    ELSE [i \in 1..(Len(l.Entries) - 1) |-> Marshal(l.Entries[i])]

\* a Flush that writes a line even when the buffer is empty
FlushLinesAlways(l) ==
    IF l.writer = NilWriter THEN << >>
    ELSE IF l.Entries = << >> THEN << << >> >>
    ELSE [i \in 1..Len(l.Entries) |-> Marshal(l.Entries[i])]

\* a Flush that falls back to the one sink when the Logger has no writer
FlushLinesDefaultWriter(l) ==
    [i \in 1..Len(l.Entries) |-> Marshal(l.Entries[i])]

\* what Logger.Flush writes: one line for each buffered Entry, in buffer order
FlushLines(l) ==
    IF l.writer = NilWriter THEN << >>
    ELSE [i \in 1..Len(l.Entries) |-> Marshal(l.Entries[i])]

\* a Flush that gives the Logger a new trace id for the next unit of work
FlushOnRenewed(l) == [l EXCEPT !.Entries = << >>, !.traceID = UUID(0)]

\* a Flush that restarts the Logger's clock for the next unit of work
FlushOnRestarted(l) == [l EXCEPT !.Entries = << >>, !.startTime = 0]

\* a Flush loop that returns at the first Entry whose encoding fails
RECURSIVE FlushLinesAborting(_, _, _)
FlushLinesAborting(l, failed, i) ==
    IF i > Len(l.Entries) \/ i \in failed THEN << >>
    ELSE <<Marshal(l.Entries[i])>> \o FlushLinesAborting(l, failed, i + 1)

\* the loop of Logger.Flush from the i-th Entry on, where json.Marshal returns an
\* error for the Entries at the indices in failed: those are skipped
RECURSIVE FlushLinesFailing(_, _, _)
FlushLinesFailing(l, failed, i) ==
    IF i > Len(l.Entries) THEN << >>
    ELSE (IF i \in failed THEN << >> ELSE <<Marshal(l.Entries[i])>>)
            \o FlushLinesFailing(l, failed, i + 1)

\* a Flush that leaves the buffer as it is
FlushOnKept(l) == l

\* the Logger after Logger.Flush
FlushOn(l) == [l EXCEPT !.Entries = << >>]

\* a NewLogger that gives every Logger the trace id of the process
NewLoggerAtProcessTrace(cfg, t, traceID) ==
    [ Entries |-> << >>,
      env |-> cfg.Env,
      request |-> NilRequest,
      service |-> cfg.Service,
      startTime |-> t,
      traceID |-> ProcessArgs,
      writer |-> cfg.Writer ]

\* NewLogger, at time t with traceID the identifier uuid.New() returned
NewLoggerAt(cfg, t, traceID) ==
    [ Entries |-> << >>,
      env |-> cfg.Env,
      request |-> NilRequest,
      service |-> cfg.Service,
      startTime |-> t,
      traceID |-> traceID,
      writer |-> cfg.Writer ]

----------------------------------------------------------------------------
(* The state machine of the library used directly. *)

LoggerIds == 1..Len(loggers)

Init ==
    /\ loggers = << >>
    /\ sink = << >>
    /\ now = 0
    /\ uuids = 0
    /\ logCalls = << >>
    /\ pc = [r \in Requests |-> "idle"]
    /\ ctx = [r \in Requests |-> 0]
    /\ wstatus = [r \in Requests |-> 0]
    /\ flushAt = [r \in Requests |-> 0]

\* time passes
Tick ==
    /\ now < MaxTicks * TickMs
    /\ now' = now + TickMs
    /\ UNCHANGED <<loggers, sink, uuids, logCalls, pc, ctx, wstatus, flushAt>>

\* a call of NewLogger(cfg)
NewLoggerCall(cfg) ==
    /\ uuids' = uuids + 1
    /\ loggers' = Append(loggers, NewLoggerAt(cfg, now, UUID(uuids + 1)))
    /\ logCalls' = Append(logCalls, 0)
    /\ UNCHANGED <<sink, now, pc, ctx, wstatus, flushAt>>

NewLogger(cfg) ==
    /\ Len(loggers) < MaxLoggers
    /\ NewLoggerCall(cfg)

\* the Log calls made so far, over all Loggers
RECURSIVE SumFrom(_, _)
SumFrom(counts, i) ==
    IF i > Len(counts) THEN 0 ELSE counts[i] + SumFrom(counts, i + 1)

TotalLogCalls == SumFrom(logCalls, 1)

\* a call of l.Log(lvl, msg)
LogCall(l, lvl, msg) ==
    /\ logCalls' = [logCalls EXCEPT ![l] = @ + 1]
    /\ loggers' = [loggers EXCEPT ![l] = LogOn(@, lvl, msg, now)]
    /\ UNCHANGED <<sink, now, uuids, pc, ctx, wstatus, flushAt>>

Log(l, lvl, msg) ==
    /\ TotalLogCalls < MaxLogs
    /\ LogCall(l, lvl, msg)

\* WithContext on the i-th buffered Entry, through the *Entry that Log returned
WithContext(l, i, context) ==
    /\ loggers' = [loggers EXCEPT ![l].Entries[i] = WithContextOn(@, context)]
    /\ UNCHANGED <<sink, now, uuids, logCalls, pc, ctx, wstatus, flushAt>>

WithRequest(l, request) ==
    /\ loggers' = [loggers EXCEPT ![l] = WithRequestOn(@, request)]
    /\ UNCHANGED <<sink, now, uuids, logCalls, pc, ctx, wstatus, flushAt>>

DecorateEntries(l, decorators) ==
    /\ loggers' = [loggers EXCEPT ![l] = DecorateEntriesOn(@, decorators)]
    /\ UNCHANGED <<sink, now, uuids, logCalls, pc, ctx, wstatus, flushAt>>

Flush(l) ==
    /\ sink' = sink \o FlushLines(loggers[l])
    /\ loggers' = [loggers EXCEPT ![l] = FlushOn(@)]
    /\ UNCHANGED <<now, uuids, logCalls, pc, ctx, wstatus, flushAt>>

\* Logger.Flush when json.Marshal returns an error for the Entries at the indices
\* in failed
FlushFailing(l, failed) ==
    /\ failed \subseteq 1..Len(loggers[l].Entries)
    /\ sink' = sink \o (IF loggers[l].writer = NilWriter THEN << >>
                        ELSE FlushLinesFailing(loggers[l], failed, 1))
    /\ loggers' = [loggers EXCEPT ![l] = FlushOn(@)]
    /\ UNCHANGED <<now, uuids, logCalls, pc, ctx, wstatus, flushAt>>

\* the context strings passed to WithContext: {"a": "a"}, which is valid JSON, and
\* {a}, which is not
ValidContext == <<"{", "\"", "a", "\"", ":", " ", "\"", "a", "\"", "}">>
InvalidContext == <<"{", "a", "}">>
Contexts == {ValidContext, InvalidContext}

\* the requests passed to WithRequest: with a trace header, without, and nil
BoundRequests == {"req1", "req3", NilRequest}

DecoratorLists ==
    UNION { [1..n -> Decorators] : n \in 0..MaxDecorators }

Next ==
    \/ Tick
    \/ \E cfg \in Configs : NewLogger(cfg)
    \/ \E l \in LoggerIds, in \in LogInputs : Log(l, in[1], in[2])
    \/ \E l \in LoggerIds :
         \E i \in 1..Len(loggers[l].Entries), context \in Contexts : WithContext(l, i, context)
    \/ \E l \in LoggerIds, request \in BoundRequests : WithRequest(l, request)
    \/ \E l \in LoggerIds, decorators \in DecoratorLists : DecorateEntries(l, decorators)
    \/ \E l \in LoggerIds : Flush(l)

Spec == Init /\ [][Next]_vars

----------------------------------------------------------------------------
(* Middleware and FromContext (logger.go): one invocation of the returned   *)
(* handler per request, the requests served concurrently.                   *)
(*   pc[r]: "idle" -> "handler" -> "returned" -> "deferred" -> "done"       *)
(*                             \-> "panicking" -> "aborted"                 *)

\* the Config given to Middleware, as in TestMiddleware
MiddlewareConfig == [Writer |-> OutWriter, Env |-> "some-env", Service |-> "some-service"]

\* the requests served, as in TestMiddleware: both carry a trace header
ServedRequests == {"req1", "req2"}

\* the status codes a handler writes
StatusCodes == {200, 500}

NoError == "nil"
ErrNoRequest == "no request"

\* a FromContext that reads the Logger from a package variable holding the latest one
FromContextLatest(c) ==
    IF loggers = << >> THEN [logger |-> 0, err |-> ErrNoRequest]
    ELSE [logger |-> Len(loggers), err |-> NoError]

\* FromContext on a context whose value under contextKeyRequest is Logger c (0: no value)
FromContext(c) ==
    IF c = 0 THEN [logger |-> 0, err |-> ErrNoRequest]
    ELSE [logger |-> c, err |-> NoError]

\* the message a handler logs names the request it serves
MessageOf(r, msg) == r \o ": " \o msg

\* a Middleware that builds its Logger once and binds it to each request in turn
MiddlewareEnterShared(r) ==
    /\ pc[r] = "idle"
    /\ IF loggers = << >>
       THEN /\ uuids' = uuids + 1
            /\ loggers' = <<WithRequestOn(NewLoggerAt(MiddlewareConfig, now, UUID(uuids + 1)), r)>>
            /\ logCalls' = <<0>>
       ELSE /\ loggers' = [loggers EXCEPT ![1] = WithRequestOn(@, r)]
            /\ UNCHANGED <<uuids, logCalls, flushAt>>
    /\ ctx' = [ctx EXCEPT ![r] = 1]
    /\ wstatus' = [wstatus EXCEPT ![r] = 0]
    /\ pc' = [pc EXCEPT ![r] = "handler"]
    /\ UNCHANGED <<sink, now, flushAt>>

\* logger := NewLogger(cfg).WithRequest(r); defer logger.Flush(); the context and the
\* wrapped response writer are set up and next.ServeHTTP is entered
MiddlewareEnter(r) ==
    /\ pc[r] = "idle"
    /\ uuids' = uuids + 1
    /\ loggers' = Append(loggers,
                         WithRequestOn(NewLoggerAt(MiddlewareConfig, now, UUID(uuids + 1)), r))
    /\ logCalls' = Append(logCalls, 0)
    /\ ctx' = [ctx EXCEPT ![r] = Len(loggers) + 1]
    /\ wstatus' = [wstatus EXCEPT ![r] = 0]
    /\ pc' = [pc EXCEPT ![r] = "handler"]
    /\ UNCHANGED <<sink, now, flushAt>>

\* the handler: lgr, err := FromContext(r.Context()); lgr.Log(lvl, msg)
HandlerLogCall(r, lvl, msg) ==
    /\ pc[r] = "handler"
    /\ FromContext(ctx[r]).err = NoError
    /\ LET l == FromContext(ctx[r]).logger
       IN  /\ logCalls' = [logCalls EXCEPT ![l] = @ + 1]
           /\ loggers' = [loggers EXCEPT ![l] = LogOn(@, lvl, msg, now)]
    /\ UNCHANGED <<sink, now, uuids, pc, ctx, wstatus, flushAt>>

HandlerLog(r, lvl, msg) ==
    /\ TotalLogCalls < MaxLogs
    /\ HandlerLogCall(r, lvl, msg)

\* the handler: WithContext on an Entry that Log returned to it
HandlerWithContext(r, i, context) ==
    /\ pc[r] = "handler"
    /\ FromContext(ctx[r]).err = NoError
    /\ LET l == FromContext(ctx[r]).logger
       IN  /\ i \in 1..Len(loggers[l].Entries)
           /\ loggers' = [loggers EXCEPT ![l].Entries[i] = WithContextOn(@, context)]
    /\ UNCHANGED <<sink, now, uuids, logCalls, pc, ctx, wstatus, flushAt>>

\* the handler writes the response header: the wrapped writer records the first code
HandlerWriteHeader(r, code) ==
    /\ pc[r] = "handler"
    /\ wstatus[r] = 0
    /\ wstatus' = [wstatus EXCEPT ![r] = code]
    /\ UNCHANGED <<loggers, sink, now, uuids, logCalls, pc, ctx, flushAt>>

\* the handler flushes its Logger itself
HandlerFlush(r) ==
    /\ pc[r] = "handler"
    /\ FromContext(ctx[r]).err = NoError
    /\ LET l == FromContext(ctx[r]).logger
       IN  /\ sink' = sink \o FlushLines(loggers[l])
           /\ loggers' = [loggers EXCEPT ![l] = FlushOn(@)]
    /\ UNCHANGED <<now, uuids, logCalls, pc, ctx, wstatus, flushAt>>

\* next.ServeHTTP returns
HandlerReturn(r) ==
    /\ pc[r] = "handler"
    /\ pc' = [pc EXCEPT ![r] = "returned"]
    /\ UNCHANGED <<loggers, sink, now, uuids, logCalls, ctx, wstatus, flushAt>>

\* a Middleware that calls Flush as its last statement instead of deferring it
HandlerPanicNoDefer(r) ==
    /\ pc[r] = "handler"
    /\ pc' = [pc EXCEPT ![r] = "aborted"]
    /\ UNCHANGED <<loggers, sink, now, uuids, logCalls, ctx, wstatus, flushAt>>

\* next.ServeHTTP panics: the statements after it are skipped, the deferred call runs
HandlerPanic(r) ==
    /\ pc[r] = "handler"
    /\ pc' = [pc EXCEPT ![r] = "panicking"]
    /\ UNCHANGED <<loggers, sink, now, uuids, logCalls, ctx, wstatus, flushAt>>

\* a Middleware that flushes without decorating
MiddlewareDecorateSkipped(r) ==
    /\ pc[r] = "returned"
    /\ pc' = [pc EXCEPT ![r] = "deferred"]
    /\ UNCHANGED <<loggers, sink, now, uuids, logCalls, ctx, wstatus, flushAt>>

\* logger.DecorateEntries(entry.StatusCode = wrappedResponseWriter.Status())
MiddlewareDecorate(r) ==
    /\ pc[r] = "returned"
    /\ loggers' = [loggers EXCEPT
                     ![ctx[r]] = DecorateEntriesOn(@, <<StatusDecorator(wstatus[r])>>)]
    /\ pc' = [pc EXCEPT ![r] = "deferred"]
    /\ UNCHANGED <<sink, now, uuids, logCalls, ctx, wstatus, flushAt>>

\* the deferred logger.Flush(), on the way out of the function
MiddlewareDeferredFlush(r) ==
    /\ pc[r] \in {"deferred", "panicking"}
    /\ sink' = sink \o FlushLines(loggers[ctx[r]])
    /\ loggers' = [loggers EXCEPT ![ctx[r]] = FlushOn(@)]
    /\ pc' = [pc EXCEPT ![r] = IF pc[r] = "deferred" THEN "done" ELSE "aborted"]
    /\ UNCHANGED <<now, uuids, logCalls, ctx, wstatus, flushAt>>

NextMw ==
    \/ \E r \in ServedRequests : MiddlewareEnter(r)
    \/ \E r \in ServedRequests, in \in LogInputs : HandlerLog(r, in[1], MessageOf(r, in[2]))
    \/ \E r \in ServedRequests, i \in 1..MaxLogs, context \in Contexts :
         HandlerWithContext(r, i, context)
    \/ \E r \in ServedRequests, code \in StatusCodes : HandlerWriteHeader(r, code)
    \/ \E r \in ServedRequests : HandlerFlush(r)
    \/ \E r \in ServedRequests : HandlerReturn(r)
    \/ \E r \in ServedRequests : HandlerPanic(r)
    \/ \E r \in ServedRequests : MiddlewareDecorate(r)
    \/ \E r \in ServedRequests : MiddlewareDeferredFlush(r)

SpecMw == Init /\ [][NextMw]_vars

----------------------------------------------------------------------------
(* WithContext on every string: all the strings over Chars of at most       *)
(* MaxCtxLen characters, and longer ones of the tests and the README.  The  *)
(* application logs a text as the message and then attaches the same text   *)
(* as the context: lgr.Info(s).WithContext(s).                              *)

\* all the strings over Chars of at most n characters
StringsUpTo(n) == UNION { [1..k -> Chars] : k \in 0..n }

LongContexts ==
    { ValidContext,                                                \* {"a": "a"}
      <<"{", "\"", "a", "\"", ":", " ", "\"", "a", "\"">>,          \* {"a": "a"   (README)
      <<"[", "{", "\"", "a", "\"", ":", "1", ",", "\"", "1", "\"", ":", "[", "1", ",", " ",
        "{", "}", "]", "}", "]">>,                                 \* [{"a":1,"1":[1, {}]}]
      <<"[", "1", ",", " ", "1", ",", "]">>,                       \* [1, 1,]
      <<"{", "}", " ", "{", "}">>,                                 \* {} {}
      <<"{", "\"", "a", "\"", " ", "1", "}">> }                     \* {"a" 1}

ContextInputs == StringsUpTo(MaxCtxLen) \cup LongContexts

NextCtx ==
    \/ \E cfg \in Configs : NewLogger(cfg)
    \/ \E l \in LoggerIds, s \in ContextInputs : TotalLogCalls < MaxCtxLogs /\ Log(l, Info, s)
    \/ \E l \in LoggerIds :
         \E i \in 1..Len(loggers[l].Entries) : WithContext(l, i, loggers[l].Entries[i].Message)

SpecCtx == Init /\ [][NextCtx]_vars

----------------------------------------------------------------------------
(* The four level methods, under every environment name.  Each call logs    *)
(* the name of the method as its message.                                   *)

Envs == {"production", "development", "some-env"}

EnvConfigs == { [Writer |-> OutWriter, Env |-> env, Service |-> "some-service"] : env \in Envs }

LoggerDebug(l, msg) == Log(l, Debug, msg)
LoggerInfo(l, msg) == Log(l, Info, msg)
LoggerWarn(l, msg) == Log(l, Warn, msg)
LoggerError(l, msg) == Log(l, Error, msg)

NextLevels ==
    \/ \E cfg \in EnvConfigs : NewLogger(cfg)
    \/ \E l \in LoggerIds : LoggerDebug(l, "Debug")
    \/ \E l \in LoggerIds : LoggerInfo(l, "Info")
    \/ \E l \in LoggerIds : LoggerWarn(l, "Warn")
    \/ \E l \in LoggerIds : LoggerError(l, "Error")
    \/ \E l \in LoggerIds : Flush(l)

SpecLevels == Init /\ [][NextLevels]_vars

----------------------------------------------------------------------------
(* Several Loggers built by NewLogger, from every Config, and used side by  *)
(* side.                                                                    *)

AllConfigs == Configs \cup EnvConfigs

NextNew ==
    \/ Tick
    \/ \E cfg \in AllConfigs : Len(loggers) < MaxNewLoggers /\ NewLoggerCall(cfg)
    \/ \E l \in LoggerIds, in \in LogInputs : Log(l, in[1], in[2])
    \/ \E l \in LoggerIds : Flush(l)

SpecNew == Init /\ [][NextNew]_vars

----------------------------------------------------------------------------
(* Log with WithContext chained on the Entry it returns, as TestLogger_Log  *)
(* does: lgr.Info(msg) and lgr.Warn(msg).WithContext(context).              *)

\* the chained calls: level, message and the context attached
ChainedInputs ==
    { <<Warn, "some warning", ValidContext>>, <<Error, "some error", InvalidContext>> }

\* lgr.Log(lvl, msg).WithContext(context): the receiver of WithContext is the
\* *Entry that Log appended to l.Entries and returned
LogWithContext(l, lvl, msg, context) ==
    /\ TotalLogCalls < MaxLogs
    /\ logCalls' = [logCalls EXCEPT ![l] = @ + 1]
    /\ LET logged == LogOn(loggers[l], lvl, msg, now)
           entry == Len(logged.Entries)
       IN  loggers' = [loggers EXCEPT
                         ![l] = [logged EXCEPT !.Entries[entry] = WithContextOn(@, context)]]
    /\ UNCHANGED <<sink, now, uuids, pc, ctx, wstatus, flushAt>>

NextChain ==
    \/ Tick
    \/ \E cfg \in Configs : NewLogger(cfg)
    \/ \E l \in LoggerIds : Log(l, Info, "some message")
    \/ \E l \in LoggerIds, in \in ChainedInputs : LogWithContext(l, in[1], in[2], in[3])
    \/ \E l \in LoggerIds : Flush(l)

SpecChain == Init /\ [][NextChain]_vars

----------------------------------------------------------------------------
(* DecorateEntries with several decorators, some writing the same field and *)
(* one reading a field that another writes.                                 *)

ChainDecorators ==
    {StatusDecorator(404), StatusDecorator(500), ServiceDecorator, EscalateDecorator}

ChainLists == UNION { [1..n -> ChainDecorators] : n \in 0..MaxChain }

NextDec ==
    \/ \E cfg \in Configs : NewLogger(cfg)
    \/ \E l \in LoggerIds, in \in LogInputs : Log(l, in[1], in[2])
    \/ \E l \in LoggerIds, decorators \in ChainLists : DecorateEntries(l, decorators)
    \/ \E l \in LoggerIds : Flush(l)

SpecDec == Init /\ [][NextDec]_vars

----------------------------------------------------------------------------
(* WithRequest called again and again on one Logger, with every request and *)
(* with nil, between Log calls.                                             *)

AllBindings == Requests \cup {NilRequest}

NextBind ==
    \/ \E cfg \in Configs : NewLogger(cfg)
    \/ \E l \in LoggerIds, request \in AllBindings : WithRequest(l, request)
    \/ \E l \in LoggerIds, in \in LogInputs : Log(l, in[1], in[2])
    \/ \E l \in LoggerIds : Flush(l)

SpecBind == Init /\ [][NextBind]_vars

----------------------------------------------------------------------------
(* Flush with an encoder that can fail: json.Marshal returns data and an    *)
(* error, and Flush writes the data only when the error is nil.  Which      *)
(* Entries fail to encode is an input of the Flush step.                    *)

NextEnc ==
    \/ Tick
    \/ \E cfg \in Configs : NewLogger(cfg)
    \/ \E l \in LoggerIds, in \in LogInputs :
         TotalLogCalls < MaxEncLogs /\ LogCall(l, in[1], in[2])
    \/ \E l \in LoggerIds :
         \E failed \in SUBSET (1..Len(loggers[l].Entries)) : FlushFailing(l, failed)

SpecEnc == Init /\ [][NextEnc]_vars

----------------------------------------------------------------------------
(* A clock that moves forward by half a second or by a second and a half    *)
(* between the calls, to follow delta and the formatted times.              *)

ClockSteps == {500, 1500}

\* time passes: d milliseconds
ClockAdvance(d) ==
    /\ now + d <= MaxClockMs
    /\ now' = now + d
    /\ UNCHANGED <<loggers, sink, uuids, logCalls, pc, ctx, wstatus, flushAt>>

NextClock ==
    \/ \E d \in ClockSteps : ClockAdvance(d)
    \/ \E cfg \in Configs : NewLogger(cfg)
    \/ \E l \in LoggerIds, in \in LogInputs :
         TotalLogCalls < MaxClockLogs /\ LogCall(l, in[1], in[2])
    \/ \E l \in LoggerIds : Flush(l)

SpecClock == Init /\ [][NextClock]_vars

----------------------------------------------------------------------------
(* The Middleware with handlers that number their Entries: the n-th Log     *)
(* call of the handler of request r logs the message "r: n", so that every  *)
(* Entry can be told from every other.  A handler may flush its Logger      *)
(* itself before the deferred Flush of the Middleware runs.                 *)

\* the message of the next Log call of the handler of request r
NextMessage(r) == MessageOf(r, ToString(logCalls[ctx[r]] + 1))

NextOnce ==
    \/ \E r \in ServedRequests : MiddlewareEnter(r)
    \/ \E r \in ServedRequests :
         /\ pc[r] = "handler"
         /\ TotalLogCalls < MaxHandlerLogs
         /\ HandlerLogCall(r, Info, NextMessage(r))
    \/ \E r \in ServedRequests, code \in StatusCodes : HandlerWriteHeader(r, code)
    \/ \E r \in ServedRequests : HandlerFlush(r)
    \/ \E r \in ServedRequests : HandlerReturn(r)
    \/ \E r \in ServedRequests : HandlerPanic(r)
    \/ \E r \in ServedRequests : MiddlewareDecorate(r)
    \/ \E r \in ServedRequests : MiddlewareDeferredFlush(r)

SpecOnce == Init /\ [][NextOnce]_vars

----------------------------------------------------------------------------
(* Flush step by step: the Middleware invocations of several requests run   *)
(* in goroutines of their own and their deferred Flush calls run side by    *)
(* side.  The Loggers share the one sink; fmt.Fprintln hands a line to the  *)
(* writer in a single Write, which the sink takes as a whole.               *)
(*   pc[r]: ... "deferred" -> "flushing" -> "done"                          *)

\* the deferred logger.Flush() is entered: the writer is not nil, the loop starts
FlushStart(r) ==
    /\ pc[r] = "deferred"
    /\ loggers[ctx[r]].writer # NilWriter
    /\ flushAt' = [flushAt EXCEPT ![r] = 1]
    /\ pc' = [pc EXCEPT ![r] = "flushing"]
    /\ UNCHANGED <<loggers, sink, now, uuids, logCalls, ctx, wstatus>>

\* a loop that runs through the buffer from its end
FlushWriteNextBackward(r) ==
    /\ pc[r] = "flushing"
    /\ flushAt[r] <= Len(loggers[ctx[r]].Entries)
    /\ sink' = Append(sink, Marshal(loggers[ctx[r]].Entries[
                               Len(loggers[ctx[r]].Entries) + 1 - flushAt[r]]))
    /\ flushAt' = [flushAt EXCEPT ![r] = @ + 1]
    /\ UNCHANGED <<loggers, now, uuids, logCalls, pc, ctx, wstatus>>

\* one turn of the loop: json.Marshal(e) and fmt.Fprintln(l.writer, string(data))
FlushWriteNext(r) ==
    /\ pc[r] = "flushing"
    /\ flushAt[r] <= Len(loggers[ctx[r]].Entries)
    /\ sink' = Append(sink, Marshal(loggers[ctx[r]].Entries[flushAt[r]]))
    /\ flushAt' = [flushAt EXCEPT ![r] = @ + 1]
    /\ UNCHANGED <<loggers, now, uuids, logCalls, pc, ctx, wstatus>>

\* the loop has ended: l.Entries = []*Entry{}, and the Middleware is left
FlushFinish(r) ==
    /\ pc[r] = "flushing"
    /\ flushAt[r] > Len(loggers[ctx[r]].Entries)
    /\ loggers' = [loggers EXCEPT ![ctx[r]] = FlushOn(@)]
    /\ flushAt' = [flushAt EXCEPT ![r] = 0]
    /\ pc' = [pc EXCEPT ![r] = "done"]
    /\ UNCHANGED <<sink, now, uuids, logCalls, ctx, wstatus>>

NextFlush ==
    \/ \E r \in ServedRequests : MiddlewareEnter(r)
    \/ \E r \in ServedRequests :
         /\ pc[r] = "handler"
         /\ TotalLogCalls < MaxHandlerLogs
         /\ HandlerLogCall(r, Info, NextMessage(r))
    \/ \E r \in ServedRequests, code \in StatusCodes : HandlerWriteHeader(r, code)
    \/ \E r \in ServedRequests : HandlerReturn(r)
    \/ \E r \in ServedRequests : MiddlewareDecorate(r)
    \/ \E r \in ServedRequests : FlushStart(r)
    \/ \E r \in ServedRequests : FlushWriteNext(r)
    \/ \E r \in ServedRequests : FlushFinish(r)

SpecFlush == Init /\ [][NextFlush]_vars

----------------------------------------------------------------------------
(* What a reader of the sink sees. *)

\* json.Unmarshal of a written line into an Entry, as the tests read the sink
Decode(line) ==
    [ Args |-> Field(line, "args"),
      CauserID |-> Field(line, "causer_id"),
      CauserType |-> Field(line, "causer_type"),
      ContextAsString |-> Field(line, "context_as_string"),
      DataId |-> Field(line, "data_id"),
      DataType |-> Field(line, "data_type"),
      Datetime |-> Field(line, "datetime"),
      Delta |-> Field(line, "delta"),
      Env |-> Field(line, "env"),
      Impersonator |-> Field(line, "impersonator"),
      Level |-> Field(line, "level"),
      Message |-> Field(line, "message"),
      ProcessContext |-> Field(line, "process_context"),
      ProcessStart |-> Field(line, "process_start"),
      RemoteAddress |-> Field(line, "remote_address"),
      RequestMethod |-> Field(line, "request_method"),
      RequestQuery |-> Field(line, "request_query"),
      RequestURL |-> Field(line, "request_url"),
      Service |-> Field(line, "service"),
      StatusCode |-> Field(line, "status_code"),
      TraceID |-> Field(line, "trace_id"),
      Type |-> Field(line, "type") ]

\* the messages the handlers log, each with the request whose handler logs it
HandlerMessages ==
    { <<MessageOf(r, in[2]), r>> : r \in Requests, in \in LogInputs }

\* the request whose handler logged a message
RequestOfMessage(msg) ==
    (CHOOSE m \in HandlerMessages : m[1] = msg)[2]

\* the written lines that the handler of request r logged, oldest first
LinesOf(r) ==
    SelectSeq(sink, LAMBDA line : RequestOfMessage(Field(line, "message")) = r)

\* the lines the step under way appends to the sink
NewLines == { i \in 1..Len(sink') : i > Len(sink) }

Buffer(l) == loggers[l].Entries

----------------------------------------------------------------------------
(* C1.  Flush on a Logger with a non-nil sink appends to the sink exactly   *)
(* one line per buffered Entry, in buffer order, each decoding to the Entry *)
(* as it is at the time of the flush, and leaves the buffer empty, whatever *)
(* Log, WithContext, WithRequest and DecorateEntries made of the buffer.    *)

C1_FlushWritesBufferInOrder ==
    [][\A l \in LoggerIds :
          (Flush(l) /\ loggers[l].writer # NilWriter) =>
             /\ Len(sink') = Len(sink) + Len(Buffer(l))
             /\ \A i \in 1..Len(sink) : sink'[i] = sink[i]
             /\ \A i \in 1..Len(Buffer(l)) : Decode(sink'[Len(sink) + i]) = Buffer(l)[i]
             /\ loggers'[l].Entries = << >>]_vars

\* two Entries, one decorated and with a context, logged under a bound request,
\* have been flushed in one batch
C1_Witness ==
    /\ Len(sink) = 2
    /\ logCalls[1] = 2
    /\ Buffer(1) = << >>
    /\ Field(sink[1], "message") = "some message"
    /\ Field(sink[2], "message") = "some warning"
    /\ Field(sink[2], "context_as_string") = ValidContext
    /\ Field(sink[1], "status_code") = 404
    /\ Field(sink[2], "status_code") = 404
    /\ Field(sink[2], "request_url") = "my.app/some-path"

----------------------------------------------------------------------------
(* C2.  In the Middleware the Flush runs on every exit path: once the       *)
(* handler has returned the decoration and then the deferred Flush can run, *)
(* once it has panicked the deferred Flush can run, and when the wrapper    *)
(* has been left, either way, the buffer is empty and every Entry that the  *)
(* handler logged is a line of the sink.                                    *)

C2_FlushOnEveryExit ==
    \A r \in Requests :
       /\ pc[r] = "returned" => ENABLED MiddlewareDecorate(r)
       /\ pc[r] \in {"deferred", "panicking"} => ENABLED MiddlewareDeferredFlush(r)
       /\ pc[r] \in {"done", "aborted"} =>
             /\ Buffer(ctx[r]) = << >>
             /\ Len(LinesOf(r)) = logCalls[ctx[r]]

\* one handler has panicked and one has returned, each after logging, and both
\* wrappers have been left
C2_Witness ==
    /\ pc["req1"] = "aborted"
    /\ pc["req2"] = "done"
    /\ Len(LinesOf("req1")) = 1
    /\ Len(LinesOf("req2")) = 1

(* C3, as claimed.  When the handler has returned normally, every line      *)
(* written for its request carries the status the response writer wrapper   *)
(* recorded.                                                                *)

C3_EveryLineCarriesFinalStatus ==
    \A r \in Requests :
       pc[r] = "done" =>
          \A i \in 1..Len(LinesOf(r)) : Field(LinesOf(r)[i], "status_code") = wstatus[r]

(* C3, amended.  When the handler has returned normally, the decoration     *)
(* comes before the deferred Flush: that Flush writes one line for every    *)
(* Entry still buffered, each with the status the wrapper recorded (0 when  *)
(* the handler wrote no header).                                            *)

C3_DeferredFlushWritesDecorated ==
    [][\A r \in Requests :
          (pc[r] = "deferred" /\ pc'[r] = "done") =>
             /\ Len(sink') = Len(sink) + Len(Buffer(ctx[r]))
             /\ \A i \in NewLines :
                   /\ Field(sink'[i], "status_code") = wstatus[r]
                   /\ RequestOfMessage(Field(sink'[i], "message")) = r]_vars

\* a handler that wrote status 200 has returned, and its two Entries were written
\* with status 200
C3_Witness ==
    /\ pc["req1"] = "done"
    /\ wstatus["req1"] = 200
    /\ Len(LinesOf("req1")) = 2
    /\ \A i \in 1..2 : Field(LinesOf("req1")[i], "status_code") = 200

(* C4.  When the handler has panicked, the deferred Flush still writes the  *)
(* buffered Entries decorated with the status the wrapper recorded.         *)

C4_DecoratedOnPanic ==
    [][\A r \in Requests :
          (pc[r] = "panicking" /\ pc'[r] = "aborted") =>
             \A i \in NewLines : Field(sink'[i], "status_code") = wstatus[r]]_vars

(* C5.  Each request has its own Logger: no two requests hold the same      *)
(* Logger, a buffered Entry lies in the buffer of the request whose handler *)
(* logged it, and every Entry, buffered or written, carries the trace id    *)
(* and the URL of that request.                                             *)

CarriesRequest(traceID, requestURL, r) ==
    /\ traceID = RequestData(r).TraceHeader
    /\ requestURL = RequestData(r).Host \o RequestData(r).Path

C5_OneLoggerPerRequest ==
    /\ \A r1, r2 \in Requests : (r1 # r2 /\ ctx[r1] # 0) => ctx[r1] # ctx[r2]
    /\ \A l \in LoggerIds : \A i \in 1..Len(Buffer(l)) :
          LET r == RequestOfMessage(Buffer(l)[i].Message)
          IN  ctx[r] = l /\ CarriesRequest(Buffer(l)[i].TraceID, Buffer(l)[i].RequestURL, r)
    /\ \A i \in 1..Len(sink) :
          CarriesRequest(Field(sink[i], "trace_id"), Field(sink[i], "request_url"),
                         RequestOfMessage(Field(sink[i], "message")))

\* two requests are served at once, one has an Entry written and the other has
\* one buffered
C5_Witness ==
    /\ pc["req1"] = "handler"
    /\ pc["req2"] = "handler"
    /\ Len(LinesOf("req2")) = 1
    /\ ctx["req1"] # 0
    /\ Len(Buffer(ctx["req1"])) = 1

----------------------------------------------------------------------------
(* C6, as claimed.  The Entries in the buffer of one Logger (those logged   *)
(* since its last Flush) all have the same trace_id and process_start.      *)

SharesStart(l) ==
    \A i \in 1..Len(l.Entries) : l.Entries[i].ProcessStart = FormatRFC3339(l.startTime)

SharesTrace(l) ==
    \A i \in 1..Len(l.Entries) : l.Entries[i].TraceID = l.traceID

C7_WithRequestSetsTrace ==
    [][\A l \in LoggerIds :
          /\ \A r \in Requests :
                WithRequest(l, r) =>
                   /\ loggers'[l].request = r
                   /\ loggers'[l].traceID =
                         IF RequestData(r).TraceHeader # "" THEN RequestData(r).TraceHeader
                         ELSE loggers[l].traceID
          /\ Len(loggers'[l].Entries) = Len(Buffer(l)) + 1 =>
                loggers'[l].Entries[Len(Buffer(l)) + 1].TraceID = loggers[l].traceID]_vars

\* an Entry built after binding a request with the header and then one without it:
\* the second request is bound, the first one's trace id is kept
C7_Witness ==
    /\ Len(loggers) = 1
    /\ loggers[1].request = "req3"
    /\ Len(Buffer(1)) = 1
    /\ Buffer(1)[1].TraceID = "my-trace"
    /\ Buffer(1)[1].RequestURL = "my.app/no-trace"

(* C8.  WithRequest(nil) is a no-op: it leaves the Logger, its bound        *)
(* request and its trace id included, as it is.                             *)

C8_NilRequestIsNoOp ==
    [][\A l \in LoggerIds : WithRequest(l, NilRequest) => loggers'[l] = loggers[l]]_vars

(* C10.  DecorateEntries changes Entries of the buffer only and adds none;  *)
(* the Entry that a later Log appends has the default status_code 0 and the *)
(* configured service, and Log leaves the Entries before it as they are.    *)

C10_DecorateOnlyBuffered ==
    [][\A l \in LoggerIds :
          /\ (\E ds \in DecoratorLists : DecorateEntries(l, ds)) =>
                Len(loggers'[l].Entries) = Len(Buffer(l))
          /\ Len(loggers'[l].Entries) = Len(Buffer(l)) + 1 =>
                /\ loggers'[l].Entries[Len(Buffer(l)) + 1].StatusCode = 0
                /\ loggers'[l].Entries[Len(Buffer(l)) + 1].Service = loggers[l].service
                /\ \A i \in 1..Len(Buffer(l)) : loggers'[l].Entries[i] = Buffer(l)[i]]_vars

\* the first Entry was decorated before the second was logged
C10_Witness ==
    /\ Len(loggers) = 1
    /\ Len(Buffer(1)) = 2
    /\ Buffer(1)[1].StatusCode = 404
    /\ Buffer(1)[2].StatusCode = 0

----------------------------------------------------------------------------
(* The JSON texts over Chars, generated from the grammar of RFC 8259: a     *)
(* text is a value between white space; a value is a string, a number, an   *)
(* array of values or an object of members, a member a string, a colon and  *)
(* a value.  Texts(n) and the like are the ones of exactly n characters.    *)

Spaces(n) == [i \in 1..n |-> " "]

JSONStrings(n) ==
    IF n < 2 THEN {} ELSE { <<"\"">> \o body \o <<"\"">> : body \in [1..(n - 2) -> Chars \ {"\""}] }

JSONNumbers(n) ==
    IF n < 1 THEN {} ELSE { [i \in 1..n |-> "1"] }

RECURSIVE JSONValues(_)
RECURSIVE JSONElements(_)
RECURSIVE JSONMembers(_)

\* a value between white space
JSONTexts(n) ==
    UNION { UNION { { Spaces(a) \o v \o Spaces(n - a - b) : v \in JSONValues(b) }
                    : b \in 1..(n - a) }
            : a \in 0..n }

\* what stands between "[" and "]" in an array that is not empty
JSONElements(n) ==
    JSONTexts(n) \cup
    UNION { { first \o <<",">> \o rest : first \in JSONTexts(a), rest \in JSONElements(n - a - 1) }
            : a \in 1..(n - 2) }

\* string, colon, value
JSONMember(n) ==
    UNION { UNION { UNION {
        { Spaces(a) \o key \o Spaces(b) \o <<":">> \o value
            : key \in JSONStrings(k), value \in JSONTexts(n - a - k - b - 1) }
        : b \in 0..(n - a - k - 2) } : k \in 2..(n - a - 2) } : a \in 0..(n - 4) }

\* what stands between "{" and "}" in an object that is not empty
JSONMembers(n) ==
    JSONMember(n) \cup
    UNION { { first \o <<",">> \o rest : first \in JSONMember(a), rest \in JSONMembers(n - a - 1) }
            : a \in 4..(n - 5) }

JSONValues(n) ==
    JSONStrings(n) \cup JSONNumbers(n) \cup
    (IF n < 2 THEN {}
     ELSE { <<"[">> \o Spaces(n - 2) \o <<"]">>, <<"{">> \o Spaces(n - 2) \o <<"}">> } \cup
          { <<"[">> \o elements \o <<"]">> : elements \in JSONElements(n - 2) } \cup
          { <<"{">> \o members \o <<"}">> : members \in JSONMembers(n - 2) })

\* the JSON texts among the strings tried: the short ones by the grammar, the long
\* ones by hand
ValidContexts ==
    UNION { JSONTexts(n) : n \in 1..MaxCtxLen } \cup
    { ValidContext,
      <<"[", "{", "\"", "a", "\"", ":", "1", ",", "\"", "1", "\"", ":", "[", "1", ",", " ",
        "{", "}", "]", "}", "]">> }

(* C9.  WithContext(s) stores s as it is when s is valid JSON and stores {} *)
(* for every other s, the empty string included, so the context of every    *)
(* buffered Entry is empty (none was attached) or valid JSON.  Here s is    *)
(* the text that was logged as the Entry's message.                         *)

C9_ContextVerbatimOrEmptyObject ==
    \A l \in LoggerIds : \A i \in 1..Len(Buffer(l)) :
       LET e == Buffer(l)[i]
       IN  /\ \/ e.ContextAsString = EmptyString
              \/ e.ContextAsString = IF e.Message \in ValidContexts THEN e.Message
                                     ELSE EmptyObject
           /\ e.ContextAsString = EmptyString \/ e.ContextAsString \in ValidContexts

\* a valid text other than {} was stored as it is
C9_Witness ==
    /\ Len(loggers) = 1
    /\ Len(Buffer(1)) = 1
    /\ Buffer(1)[1].Message = <<" ", "[", "]">>
    /\ Buffer(1)[1].ContextAsString = <<" ", "[", "]">>

----------------------------------------------------------------------------
(* C11.  Flush on a Logger whose writer is nil writes nothing, the sink is  *)
(* left as it is, and still empties the buffer; the step is always enabled  *)
(* (Flush has no error result).                                             *)

C11_NilWriterFlushDiscards ==
    [][\A l \in LoggerIds :
          /\ loggers[l].writer = NilWriter => ENABLED Flush(l)
          /\ (Flush(l) /\ loggers[l].writer = NilWriter) =>
                /\ sink' = sink
                /\ loggers'[l].Entries = << >>]_vars

\* two Entries were logged on a Logger without a writer and flushed: nothing is
\* buffered, nothing was written
C11_Witness ==
    /\ Len(loggers) = 1
    /\ loggers[1].writer = NilWriter
    /\ logCalls[1] = 2
    /\ Buffer(1) = << >>
    /\ sink = << >>

(* C12.  Flush leaves the buffer empty, and a Flush of an empty buffer      *)
(* writes no line and leaves the Logger as it is.                           *)

C12_FlushIdempotent ==
    [][\A l \in LoggerIds :
          Flush(l) =>
             /\ loggers'[l].Entries = << >>
             /\ Buffer(l) = << >> => (sink' = sink /\ loggers'[l] = loggers[l])]_vars

\* an Entry was logged and flushed to the sink, and the buffer is empty for the
\* next Flush
C12_Witness ==
    /\ Len(loggers) = 1
    /\ loggers[1].writer = OutWriter
    /\ logCalls[1] = 1
    /\ Buffer(1) = << >>
    /\ Len(sink) = 1

----------------------------------------------------------------------------
(* C13.  FromContext on the context that the Middleware passes to the       *)
(* handler of a request returns the Logger that the Middleware built for    *)
(* that request (the one it bound the request to) and no error; FromContext *)
(* on the context of a request that has not passed through the Middleware,  *)
(* which holds no Logger, returns no Logger and ErrNoRequest.               *)

C13_FromContextReturnsRequestLogger ==
    \A r \in Requests :
       /\ pc[r] = "handler" =>
             /\ FromContext(ctx[r]).err = NoError
             /\ FromContext(ctx[r]).logger \in LoggerIds
             /\ loggers[FromContext(ctx[r]).logger].request = r
             /\ \A l \in LoggerIds : loggers[l].request = r => l = FromContext(ctx[r]).logger
       /\ pc[r] = "idle" => FromContext(ctx[r]) = [logger |-> 0, err |-> ErrNoRequest]

\* both handlers run, the one of req1 on the Logger built second, each has logged
\* into its own Logger, and req3 was never given to the Middleware
C13_Witness ==
    /\ pc["req1"] = "handler"
    /\ pc["req2"] = "handler"
    /\ FromContext(ctx["req1"]) = [logger |-> 2, err |-> NoError]
    /\ FromContext(ctx["req2"]) = [logger |-> 1, err |-> NoError]
    /\ Len(Buffer(1)) = 1
    /\ Len(Buffer(2)) = 1
    /\ FromContext(ctx["req3"]).err = ErrNoRequest

----------------------------------------------------------------------------
(* C14.  No level is filtered, under any environment name: every call of    *)
(* Debug, Info, Warn or Error adds one Entry, so the Entries written and    *)
(* buffered are as many as the calls made; the Entry has the level of the   *)
(* method that was called and the Logger's env; and a Flush writes every    *)
(* buffered Entry with that level.                                          *)

\* the level that the method named by a message gives its Entry
LevelOfMethod(method) ==
    CASE method = "Debug" -> "debug"
      [] method = "Info" -> "info"
      [] method = "Warn" -> "warn"
      [] method = "Error" -> "error"

\* the number of Entries buffered, over all Loggers
TotalBuffered == SumFrom([l \in LoggerIds |-> Len(Buffer(l))], 1)

NothingFiltered ==
    /\ Len(sink) + TotalBuffered = TotalLogCalls
    /\ \A l \in LoggerIds : \A i \in 1..Len(Buffer(l)) :
          /\ Buffer(l)[i].Level = LevelOfMethod(Buffer(l)[i].Message)
          /\ Buffer(l)[i].Env = loggers[l].env
    /\ \A i \in 1..Len(sink) :
          Field(sink[i], "level") = LevelOfMethod(Field(sink[i], "message"))

----------------------------------------------------------------------------
(* C15.  NewLogger(cfg) returns a Logger with an empty buffer, the env, the *)
(* service and the writer of cfg, the time of the call as its start time,   *)
(* no request bound (its Entries carry no request data) and a trace id that *)
(* no Logger built before has; it leaves the Loggers built before as they   *)
(* are, and a step on one Logger never changes another Logger (no two share *)
(* a buffer).                                                               *)

NoRequestData(l) ==
    \A i \in 1..Len(l.Entries) :
       /\ l.Entries[i].RemoteAddress = ""
       /\ l.Entries[i].RequestMethod = ""
       /\ l.Entries[i].RequestQuery = ""
       /\ l.Entries[i].RequestURL = ""

C15_NewLoggerIsFresh ==
    [][/\ \A cfg \in AllConfigs :
             NewLoggerCall(cfg) =>
                LET new == loggers'[Len(loggers) + 1]
                IN  /\ new.Entries = << >>
                    /\ new.env = cfg.Env
                    /\ new.service = cfg.Service
                    /\ new.writer = cfg.Writer
                    /\ new.startTime = now
                    /\ new.request = NilRequest
                    /\ \A l \in LoggerIds : loggers[l].traceID # new.traceID
                    /\ \A l \in LoggerIds : loggers'[l] = loggers[l]
       /\ \A l, k \in LoggerIds :
             (l # k /\ loggers'[l] # loggers[l]) => loggers'[k] = loggers[k]
       /\ \A l, k \in 1..Len(loggers') :
             /\ NoRequestData(loggers'[l])
             /\ l # k => loggers'[l].traceID # loggers'[k].traceID]_vars

\* two Loggers built from different Configs a tick apart: one has an Entry
\* buffered, the other has had its Entry written and its buffer is empty
C15_Witness ==
    /\ Len(loggers) = 2
    /\ loggers[1].env = "production"
    /\ loggers[2].writer = NilWriter
    /\ loggers[1].startTime # loggers[2].startTime
    /\ loggers[1].traceID # loggers[2].traceID
    /\ Len(Buffer(1)) = 0
    /\ Len(Buffer(2)) = 1
    /\ Len(sink) = 1
    /\ Field(sink[1], "trace_id") = loggers[1].traceID
    /\ Field(sink[1], "request_url") = ""

----------------------------------------------------------------------------
(* C16.  The Entry that Log returns is the Entry in the buffer: a context   *)
(* attached by WithContext chained on it is the context of the buffered     *)
(* Entry and of the line that Flush writes for it (the text when it is      *)
(* valid JSON, {} when it is not), and an Entry logged without WithContext  *)
(* is buffered and written with an empty context_as_string.                 *)

\* the context_as_string expected of the Entry with a message
ContextOfMessage(msg) ==
    CASE msg = "some message" -> EmptyString
      [] msg = "some warning" -> ValidContext
      [] msg = "some error" -> EmptyObject

C16_ChainedContextIsEmitted ==
    /\ \A l \in LoggerIds : \A i \in 1..Len(Buffer(l)) :
          Buffer(l)[i].ContextAsString = ContextOfMessage(Buffer(l)[i].Message)
    /\ \A i \in 1..Len(sink) :
          Field(sink[i], "context_as_string") = ContextOfMessage(Field(sink[i], "message"))
    /\ Len(sink) + TotalBuffered <= TotalLogCalls

\* an Entry logged without a context and one with a context chained were written
\* in one Flush
C16_Witness ==
    /\ Len(sink) = 2
    /\ Field(sink[1], "message") = "some message"
    /\ Field(sink[1], "context_as_string") = EmptyString
    /\ Field(sink[2], "message") = "some warning"
    /\ Field(sink[2], "context_as_string") = ValidContext
    /\ Field(sink[1], "datetime") = Field(sink[2], "datetime")

----------------------------------------------------------------------------
(* C17.  The trace id of a Logger changes only in a WithRequest step, one   *)
(* that binds a request with a non-empty x-trace-id header: Log,            *)
(* WithContext, DecorateEntries and Flush leave it as it is.                *)

C17_TraceChangesOnlyInWithRequest ==
    [][\A l \in LoggerIds :
          /\ loggers'[l].traceID # loggers[l].traceID =>
                \E request \in Requests :
                   /\ WithRequest(l, request)
                   /\ loggers'[l].traceID = RequestData(request).TraceHeader
          /\ \/ \E in \in LogInputs : Log(l, in[1], in[2])
             \/ \E i \in 1..Len(Buffer(l)), context \in Contexts : WithContext(l, i, context)
             \/ \E ds \in DecoratorLists : DecorateEntries(l, ds)
             \/ Flush(l)
             => loggers'[l].traceID = loggers[l].traceID]_vars

\* after WithRequest set the trace id, an Entry was logged, given a context,
\* decorated and written, and another was logged: the trace id is still the header
C17_Witness ==
    /\ Len(loggers) = 1
    /\ loggers[1].traceID = "my-trace"
    /\ Len(sink) = 1
    /\ Field(sink[1], "trace_id") = "my-trace"
    /\ Field(sink[1], "status_code") = 404
    /\ Field(sink[1], "context_as_string") = ValidContext
    /\ Len(Buffer(1)) = 1
    /\ Buffer(1)[1].TraceID = "my-trace"

(* C18.  Flush changes nothing of the Logger but the buffer: env, service,  *)
(* start time, trace id, bound request and writer stay, so the Entry that   *)
(* Log builds right after the Flush is the one it would have built right    *)
(* before it, with the same trace_id and process_start.                     *)

C18_FlushKeepsConfiguration ==
    [][\A l \in LoggerIds :
          Flush(l) =>
             /\ loggers'[l].env = loggers[l].env
             /\ loggers'[l].service = loggers[l].service
             /\ loggers'[l].startTime = loggers[l].startTime
             /\ loggers'[l].traceID = loggers[l].traceID
             /\ loggers'[l].request = loggers[l].request
             /\ loggers'[l].writer = loggers[l].writer
             /\ \A in \in LogInputs :
                   buildEntry(loggers'[l], in[1], in[2], now') =
                      buildEntry(loggers[l], in[1], in[2], now)]_vars

\* on a Logger bound to a request, an Entry was logged and written, the clock
\* moved, and the Entry logged then has the same trace_id, process_start and
\* request data
C18_Witness ==
    /\ Len(loggers) = 1
    /\ Len(sink) = 1
    /\ Len(Buffer(1)) = 1
    /\ Field(sink[1], "datetime") # Buffer(1)[1].Datetime
    /\ Field(sink[1], "trace_id") = "my-trace"
    /\ Field(sink[1], "trace_id") = Buffer(1)[1].TraceID
    /\ Field(sink[1], "process_start") = Buffer(1)[1].ProcessStart
    /\ Field(sink[1], "request_url") = Buffer(1)[1].RequestURL
    /\ Field(sink[1], "request_url") = "my.app/some-path"

(* C19.  Until the next Flush the buffer only grows at its end: Log adds    *)
(* one Entry, last, and leaves the others; WithRequest leaves the buffer as *)
(* it is; WithContext and DecorateEntries keep its length and keep every    *)
(* Entry in its place, changing only the fields they write; and the buffer  *)
(* gets shorter in a Flush step only.                                       *)

C19_BufferAppendOnly ==
    [][\A l \in LoggerIds :
          LET old == Buffer(l)
              new == loggers'[l].Entries
          IN  /\ \A in \in LogInputs :
                    Log(l, in[1], in[2]) =>
                       /\ Len(new) = Len(old) + 1
                       /\ new[Len(new)].Message = in[2]
                       /\ new[Len(new)].Level = LevelString(in[1])
                       /\ \A i \in 1..Len(old) : new[i] = old[i]
              /\ (\E request \in BoundRequests : WithRequest(l, request)) => new = old
              /\ (\E i \in 1..Len(old), context \in Contexts : WithContext(l, i, context)) =>
                    /\ Len(new) = Len(old)
                    /\ \A j \in 1..Len(old) :
                          new[j] = [old[j] EXCEPT !.ContextAsString = new[j].ContextAsString]
              /\ (\E ds \in DecoratorLists : DecorateEntries(l, ds)) =>
                    /\ Len(new) = Len(old)
                    /\ \A j \in 1..Len(old) :
                          new[j] = [old[j] EXCEPT !.StatusCode = new[j].StatusCode,
                                                  !.Service = new[j].Service]
              /\ Len(new) < Len(old) => Flush(l)]_vars

\* two Entries in call order: the first logged before a request was bound and
\* then decorated, the second logged after and given a context
C19_Witness ==
    /\ Len(loggers) = 1
    /\ Len(Buffer(1)) = 2
    /\ Buffer(1)[1].Message = "some warning"
    /\ Buffer(1)[1].RequestURL = ""
    /\ Buffer(1)[1].StatusCode = 404
    /\ Buffer(1)[2].Message = "some message"
    /\ Buffer(1)[2].RequestURL = "my.app/some-path"
    /\ Buffer(1)[2].ContextAsString = EmptyObject

----------------------------------------------------------------------------
(* C20.  DecorateEntries(d1, ..., dk) puts dk(...d1(e)...) in the place of  *)
(* every buffered Entry e: the decorators apply from left to right, each to *)
(* the result of the ones before it, and a field that none of them writes   *)
(* keeps its value.                                                         *)

\* dk(...d1(e)...) for the first k decorators of ds
RECURSIVE Composed(_, _, _)
Composed(ds, e, k) ==
    IF k = 0 THEN e ELSE Decorate(ds[k], Composed(ds, e, k - 1))

\* the fields that the decorators of ds write
WrittenBy(ds) == { ds[k].field : k \in 1..Len(ds) }

\* an Entry without the fields a decorator of the model may write
Undecorated(e) == [e EXCEPT !.StatusCode = 0, !.Service = "", !.Level = ""]

C20_DecoratorsComposeLeftToRight ==
    [][\A l \in LoggerIds : \A ds \in ChainLists :
          DecorateEntries(l, ds) =>
             /\ Len(loggers'[l].Entries) = Len(Buffer(l))
             /\ \A i \in 1..Len(Buffer(l)) :
                   LET old == Buffer(l)[i]
                       new == loggers'[l].Entries[i]
                   IN  /\ new = Composed(ds, old, Len(ds))
                       /\ Undecorated(new) = Undecorated(old)
                       /\ "StatusCode" \notin WrittenBy(ds) => new.StatusCode = old.StatusCode
                       /\ "Service" \notin WrittenBy(ds) => new.Service = old.Service
                       /\ "Level" \notin WrittenBy(ds) => new.Level = old.Level]_vars

\* two Entries decorated by a status decorator and then the one that reads the
\* status: both have the status and the raised level, and the configured service
C20_Witness ==
    /\ Len(loggers) = 1
    /\ Len(Buffer(1)) = 2
    /\ \A i \in 1..2 :
          /\ Buffer(1)[i].StatusCode = 500
          /\ Buffer(1)[i].Level = "error"
          /\ Buffer(1)[i].Service = "some-service"
    /\ Buffer(1)[1].Message = "some message"
    /\ Buffer(1)[2].Message = "some warning"

----------------------------------------------------------------------------
(* C21, as claimed.  The last WithRequest call wins for the bound request   *)
(* and for the trace id: a Logger bound to a request has the trace id that  *)
(* binding that request alone to the Logger as NewLogger built it (the l-th *)
(* Logger with the l-th identifier) determines.                             *)

C21_LastCallWinsForTrace ==
    \A l \in LoggerIds :
       loggers[l].request # NilRequest =>
          loggers[l].traceID =
             IF RequestData(loggers[l].request).TraceHeader # ""
             THEN RequestData(loggers[l].request).TraceHeader
             ELSE UUID(l)

(* C21, amended.  For requests other than nil: calling WithRequest again   *)
(* with the same request changes nothing; the last call wins for the bound  *)
(* request, and for the trace id when its request has a non-empty           *)
(* x-trace-id header: otherwise the trace id stays what the calls before it *)
(* made it.                                                                 *)

C21_LastCallWinsForRequest ==
    [][\A l \in LoggerIds : \A request \in Requests :
          WithRequest(l, request) =>
             /\ loggers'[l].request = request
             /\ loggers'[l].traceID =
                   IF RequestData(request).TraceHeader # ""
                   THEN RequestData(request).TraceHeader
                   ELSE loggers[l].traceID
             /\ WithRequestOn(loggers'[l], request) = loggers'[l]]_vars

\* req1 was bound, then req2 and then req3, with an Entry logged after each of the
\* last two: the last request is bound, the trace id is the one of req2
C21_Witness ==
    /\ Len(loggers) = 1
    /\ loggers[1].request = "req3"
    /\ loggers[1].traceID = "my-new-trace"
    /\ Len(Buffer(1)) = 2
    /\ Buffer(1)[1].RequestURL = "my.app/some-other-path"
    /\ Buffer(1)[2].RequestURL = "my.app/no-trace"
    /\ Buffer(1)[2].TraceID = "my-new-trace"

(* C22.  The request fields of an Entry are taken when Log builds it: all   *)
(* four are empty when no request is bound then, and otherwise they are the *)
(* remote address, the method, the raw query and host followed by path of   *)
(* the bound request; a WithRequest call leaves the buffered Entries as     *)
(* they are.                                                                *)

C22_RequestFieldsAreSnapshot ==
    [][\A l \in LoggerIds :
          /\ logCalls'[l] = logCalls[l] + 1 =>
                LET e == loggers'[l].Entries[Len(loggers'[l].Entries)]
                    r == loggers[l].request
                IN  IF r = NilRequest
                    THEN /\ e.RemoteAddress = ""
                         /\ e.RequestMethod = ""
                         /\ e.RequestQuery = ""
                         /\ e.RequestURL = ""
                    ELSE /\ e.RemoteAddress = RequestData(r).RemoteAddr
                         /\ e.RequestMethod = RequestData(r).Method
                         /\ e.RequestQuery = RequestData(r).RawQuery
                         /\ e.RequestURL = RequestData(r).Host \o RequestData(r).Path
          /\ (\E request \in AllBindings : WithRequest(l, request)) =>
                loggers'[l].Entries = Buffer(l)]_vars

\* an Entry logged with no request bound and one logged under req2, and req1 bound
\* after both: each Entry still has the request data of its own moment
C22_Witness ==
    /\ Len(loggers) = 1
    /\ loggers[1].request = "req1"
    /\ Len(Buffer(1)) = 2
    /\ Buffer(1)[1].RequestURL = ""
    /\ Buffer(1)[1].RequestMethod = ""
    /\ Buffer(1)[2].RequestURL = "my.app/some-other-path"
    /\ Buffer(1)[2].RequestQuery = "q=1"
    /\ Buffer(1)[2].RemoteAddress = "10.0.0.2:2"

----------------------------------------------------------------------------
(* C23.  When json.Marshal fails for some buffered Entries during a Flush,  *)
(* only those are missing from the output: a line is written for every      *)
(* other buffered Entry, in buffer order, the Flush step is enabled         *)
(* whichever Entries fail (no error reaches the caller), and the buffer is  *)
(* empty after it.                                                          *)

\* how many of the indices 1..i are not in failed
Encoded(failed, i) == Cardinality((1..i) \ failed)

C23_EncodeFailureDropsOneEntry ==
    [][\A l \in LoggerIds : \A failed \in SUBSET (1..Len(Buffer(l))) :
          /\ ENABLED FlushFailing(l, failed)
          /\ (FlushFailing(l, failed) /\ loggers[l].writer # NilWriter) =>
                /\ Len(sink') = Len(sink) + Encoded(failed, Len(Buffer(l)))
                /\ \A i \in 1..Len(sink) : sink'[i] = sink[i]
                /\ \A i \in (1..Len(Buffer(l))) \ failed :
                      Decode(sink'[Len(sink) + Encoded(failed, i)]) = Buffer(l)[i]
                /\ loggers'[l].Entries = << >>]_vars

\* three Entries were logged and flushed, the encoding of the second failed: the
\* first and the third were written, in that order
C23_Witness ==
    /\ Len(loggers) = 1
    /\ logCalls[1] = 3
    /\ Buffer(1) = << >>
    /\ Len(sink) = 2
    /\ Field(sink[1], "message") = "some message"
    /\ Field(sink[2], "message") = "some warning"

----------------------------------------------------------------------------
(* C24.  With a clock that only moves forward, the delta of the Entry that  *)
(* Log builds is the milliseconds from the Logger's start time to the time  *)
(* of the call, and along the buffer delta is never negative and never      *)
(* decreases.                                                               *)

DeltaNonDecreasing(entries) ==
    \A i, j \in 1..Len(entries) :
       /\ entries[i].Delta >= 0
       /\ i < j => entries[i].Delta <= entries[j].Delta

C24_DeltaNonDecreasing ==
    [][/\ now' >= now
       /\ \A l \in 1..Len(loggers') : DeltaNonDecreasing(loggers'[l].Entries)
       /\ \A l \in LoggerIds :
             logCalls'[l] = logCalls[l] + 1 =>
                loggers'[l].Entries[Len(loggers'[l].Entries)].Delta =
                   now - loggers[l].startTime]_vars

\* three Entries of one batch on a Logger built half a second after the start of
\* the run: logged at once, half a second later and another second and a half later
C24_Witness ==
    /\ Len(loggers) = 1
    /\ loggers[1].startTime = 500
    /\ Len(Buffer(1)) = 3
    /\ Buffer(1)[1].Delta = 0
    /\ Buffer(1)[2].Delta = 500
    /\ Buffer(1)[3].Delta = 2000
    /\ Buffer(1)[1].Datetime = 0
    /\ Buffer(1)[2].Datetime = 1
    /\ Buffer(1)[3].Datetime = 2

----------------------------------------------------------------------------
(* C25.  Every Entry that Log appended is written at most once, whatever    *)
(* Log, DecorateEntries and Flush calls follow: no two lines of the sink    *)
(* are the same Entry; with a writer, every Entry logged so far is either   *)
(* in the buffer or one line of the sink, never both and never neither; and *)
(* when the Middleware is left, after the handler's own flushes and the     *)
(* deferred one, every Entry of the request is in the sink exactly once.    *)

\* how often the Entry with a message occurs among written lines and in a buffer
TimesWritten(msg) ==
    Cardinality({ i \in 1..Len(sink) : Field(sink[i], "message") = msg })

TimesBuffered(l, msg) ==
    Cardinality({ i \in 1..Len(Buffer(l)) : Buffer(l)[i].Message = msg })

C25_WrittenAtMostOnce ==
    /\ \A i, j \in 1..Len(sink) :
          i # j => Field(sink[i], "message") # Field(sink[j], "message")
    /\ \A r \in ServedRequests :
          ctx[r] # 0 =>
             \A n \in 1..logCalls[ctx[r]] :
                /\ TimesWritten(MessageOf(r, ToString(n))) +
                      TimesBuffered(ctx[r], MessageOf(r, ToString(n))) = 1
                /\ pc[r] \in {"done", "aborted"} =>
                      TimesWritten(MessageOf(r, ToString(n))) = 1

\* the handler of req1 logged an Entry, flushed, logged another and returned, and
\* the deferred Flush has run: each Entry is in the sink once, the first without
\* the status and the second with it
C25_Witness ==
    /\ pc["req1"] = "done"
    /\ wstatus["req1"] = 200
    /\ Len(sink) = 2
    /\ Field(sink[1], "message") = "req1: 1"
    /\ Field(sink[1], "status_code") = 0
    /\ Field(sink[2], "message") = "req1: 2"
    /\ Field(sink[2], "status_code") = 200

----------------------------------------------------------------------------
(* C26.  When the Loggers of several requests flush side by side to the one *)
(* sink, each writing one whole line per Entry, the lines of different      *)
(* Loggers may alternate, but the lines of one Logger stand in the sink in  *)
(* the order of its buffer, each the encoding of its Entry, none missing    *)
(* once its Flush has ended and none twice; and every line of the sink is   *)
(* a line of one of the Loggers.                                            *)

\* the lines of the sink that carry the trace id of request r, oldest first
LinesWithTraceOf(r) ==
    SelectSeq(sink, LAMBDA line : Field(line, "trace_id") = RequestData(r).TraceHeader)

C26_ConcurrentFlushKeepsOrder ==
    /\ \A r \in ServedRequests :
          LET lines == LinesWithTraceOf(r)
          IN  /\ \A i \in 1..Len(lines) : Field(lines[i], "message") = MessageOf(r, ToString(i))
              /\ pc[r] \in {"idle", "handler", "returned", "deferred"} => lines = << >>
              /\ pc[r] = "flushing" =>
                    /\ Len(lines) = flushAt[r] - 1
                    /\ \A i \in 1..Len(lines) : Decode(lines[i]) = Buffer(ctx[r])[i]
              /\ pc[r] = "done" => Len(lines) = logCalls[ctx[r]]
    /\ Len(sink) = Len(LinesWithTraceOf("req1")) + Len(LinesWithTraceOf("req2"))

\* both Flush calls have ended, and the line of req2 stands between the two lines
\* of req1
C26_Witness ==
    /\ pc["req1"] = "done"
    /\ pc["req2"] = "done"
    /\ Len(sink) = 3
    /\ Field(sink[1], "message") = "req1: 1"
    /\ Field(sink[2], "message") = "req2: 1"
    /\ Field(sink[3], "message") = "req1: 2"
    /\ Field(sink[3], "status_code") = 500

====
